---- MODULE Spec2Model ----
(***************************************************************************)
(* bio2bel: connection resolution (utils.get_connection), manager          *)
(* construction (AbstractManagerConnectionMixin.__init__) and the populate *)
(* / drop lifecycle with its action ledger (bio2bel_populater,             *)
(* AbstractManager.drop_all).                                              *)
(*                                                                         *)
(* Strings are sequences of one-character strings, so that str.lower() and *)
(* str.upper() are computed.  Connection strings are opaque pairs          *)
(* <<tag, key>>; None is the pair <<"None", <<>>>>.                        *)
(***************************************************************************)
EXTENDS Naturals, Sequences, FiniteSets

VARIABLES
    environ,      \* os.environ: a function from variable names to values
    globalFile,   \* the file at DEFAULT_CONFIG_PATH
    localFile,    \* the files at <BIO2BEL_DIR>/<module>/config.ini, by module
    ret,          \* outcome of the last sequential call
    frames,       \* the frames of the concurrent callers of get_connection
    writes,       \* how many times DEFAULT_CONFIG_PATH was opened for writing
    fresh,        \* the run started from a fresh environment
    ledger,       \* the rows of the Action table, in insertion order
    tables,       \* per module, the state of the module's schema
    hist          \* the lifecycle calls made so far, with their outcome

vars == <<environ, globalFile, localFile, ret, frames, writes, fresh,
          ledger, tables, hist>>

-----------------------------------------------------------------------------
(* Bounds *)

NumCallers == 2
MaxOps == 3

-----------------------------------------------------------------------------
(* Strings *)

LowerChar(c) == CASE c = "A" -> "a" [] c = "B" -> "b" [] OTHER -> c
UpperChar(c) == CASE c = "a" -> "A" [] c = "b" -> "B" [] OTHER -> c

Lower(s) == [i \in 1..Len(s) |-> LowerChar(s[i])]
Upper(s) == [i \in 1..Len(s) |-> UpperChar(s[i])]

\* Python values passed as a module name: strings, None and Ellipsis (the
\* value the class attribute module_name has when it is not overridden).
Str(s) == [type |-> "str", val |-> s]
PyNone == [type |-> "NoneType", val |-> <<>>]
PyEllipsis == [type |-> "ellipsis", val |-> <<>>]

IsStr(x) == x.type = "str"
Truthy(x) == IF x.type = "str" THEN x.val # <<>> ELSE x.type = "ellipsis"

StrNames == {<<>>, <<"a">>, <<"A">>, <<"b">>}
NameInputs == {Str(s) : s \in StrNames} \cup {PyNone, PyEllipsis}
ValidNames == {Str(s) : s \in StrNames \ {<<>>}}

\* The modules the environment and the configuration files speak about.
ConfigModules == {<<"a">>, <<"b">>}

-----------------------------------------------------------------------------
(* Connection strings *)

None == <<"None", <<>>>>
DEFAULT_CACHE_CONNECTION == <<"sqlite", <<>>>>
Explicit == {<<"explicit", <<>>>>}
ConnectionArgs == Explicit \cup {None}

ModuleEnvKey(name) == <<"BIO2BEL_">> \o Upper(name) \o <<"_CONNECTION">>
GlobalEnvKey == <<"BIO2BEL_CONNECTION">>
EnvKeys == {ModuleEnvKey(m) : m \in ConfigModules} \cup {GlobalEnvKey}
EnvValue(k) == <<"env", k>>

environ_get(env, k) == IF k \in DOMAIN env THEN env[k] ELSE None

-----------------------------------------------------------------------------
(* Configuration files and ConfigParser *)

default_section == <<"DEFAULT">>
NoSections == [m \in {} |-> None]

Absent == [kind |-> "absent", defaults |-> None, sections |-> NoSections]
Malformed == [kind |-> "malformed", defaults |-> None, sections |-> NoSections]
Ini(d, s) == [kind |-> "ini", defaults |-> d, sections |-> s]
EmptyFile == Ini(None, NoSections)
SeededFile == Ini(DEFAULT_CACHE_CONNECTION, NoSections)

GlobalDefault == <<"global_default", <<>>>>
SectionValue(m) == <<"global_section", m>>
LocalValue(m) == <<"local", m>>

SectionSets ==
    {[m \in S |-> IF m \in K THEN SectionValue(m) ELSE None] :
        S \in SUBSET ConfigModules, K \in SUBSET ConfigModules}
GlobalFiles ==
    {Absent, Malformed} \cup
    {Ini(d, s) : d \in {None, GlobalDefault}, s \in SectionSets}
LocalFiles(m) ==
    {Absent, Malformed, EmptyFile, Ini(LocalValue(m), NoSections)}

exists(file) == file.kind # "absent"

\* <BIO2BEL_DIR>/<module_name>/config.ini
module_config(files, name) ==
    IF name \in DOMAIN files THEN files[name] ELSE Absent

\* ConfigParser.read: a missing file is skipped, an unparseable one raises.
ReadRaises(file) == file.kind = "malformed"
Read(file) == [defaults |-> file.defaults, sections |-> file.sections]

\* ConfigParser.has_option(section, 'connection'): an empty section name or
\* the default section looks at the defaults; a missing section has no
\* options; a present section has its own options and the defaults.
has_option(config, section) ==
    IF section = <<>> \/ section = default_section
    THEN config.defaults # None
    ELSE IF section \notin DOMAIN config.sections
         THEN FALSE
         ELSE config.sections[section] # None \/ config.defaults # None

\* ConfigParser.get(section, 'connection') raises NoSectionError for a
\* section that is neither present nor the default section.
GetRaises(config, section) ==
    section \notin DOMAIN config.sections /\ section # default_section
get(config, section) ==
    IF section \in DOMAIN config.sections /\ config.sections[section] # None
    THEN config.sections[section]
    ELSE config.defaults

-----------------------------------------------------------------------------
(* get_connection, one step per I/O operation *)

NewFrame(module_name, connection) ==
    [pc |-> "L55", module_name |-> module_name, name |-> <<>>,
     connection |-> connection, result |-> None, exc |-> "", io |-> <<>>]

World(env, gfile, lfiles) ==
    [environ |-> env, globalFile |-> gfile, localFile |-> lfiles]

Goto(f, pc) == [f EXCEPT !.pc = pc]
Return(f, v) == [f EXCEPT !.pc = "done", !.result = v]
Raise(f, e) == [f EXCEPT !.pc = "done", !.exc = e]
Io(f, ev) == [f EXCEPT !.io = Append(@, ev)]
At(f, w) == [f |-> f, w |-> w]

\* line 55: module_name = module_name.lower()
StepL55(f, w) ==
    IF ~IsStr(f.module_name)
    THEN At(Raise(f, "AttributeError"), w)
    ELSE At(Goto([f EXCEPT !.name = Lower(f.module_name.val)], "L58"), w)

\* StepL58 with the connection parameter never looked at
StepL58_SkipExplicit(f, w) == At(Goto(f, "L63"), w)

\* lines 58-59: 1. use the given connection
StepL58(f, w) ==
    IF f.connection # None
    THEN At(Return(f, f.connection), w)
    ELSE At(Goto(f, "L63"), w)

\* lines 62-66: 2. the environment variable of the module
StepL63(f, w) ==
    LET bio2bel_module_env == ModuleEnvKey(f.name)
        bio2bel_module_env_value == environ_get(w.environ, bio2bel_module_env)
        g == Io(f, "environ.get")
    IN  IF bio2bel_module_env_value # None
        THEN At(Return(g, bio2bel_module_env_value), w)
        ELSE At(Goto(g, "L72"), w)

\* line 72: os.path.exists(DEFAULT_CONFIG_PATH)
StepL72(f, w) ==
    IF exists(w.globalFile)
    THEN At(Goto(Io(f, "exists"), "L73"), w)
    ELSE At(Goto(Io(f, "exists"), "L82"), w)

\* StepL73 with the parse error swallowed: the file counts as empty
StepL73_Swallow(f, w) ==
    LET g == Io(f, "read")
        global_config == Read(w.globalFile)
    IN  IF ~ReadRaises(w.globalFile) /\ has_option(global_config, f.name)
        THEN IF GetRaises(global_config, f.name)
             THEN At(Raise(g, "NoSectionError"), w)
             ELSE At(Return(g, get(global_config, f.name)), w)
        ELSE At(Goto(g, "L82"), w)

\* lines 73-78: read the global file, look in the section of the module
StepL73(f, w) ==
    LET g == Io(f, "read")
        global_config == Read(w.globalFile)
    IN  IF ReadRaises(w.globalFile)
        THEN At(Raise(g, "ParsingError"), w)
        ELSE IF has_option(global_config, f.name)
             THEN IF GetRaises(global_config, f.name)
                  THEN At(Raise(g, "NoSectionError"), w)
                  ELSE At(Return(g, get(global_config, f.name)), w)
             ELSE At(Goto(g, "L82"), w)

\* lines 81-82: os.path.exists(module_config_path)
StepL82(f, w) ==
    IF exists(module_config(w.localFile, f.name))
    THEN At(Goto(Io(f, "exists"), "L83"), w)
    ELSE At(Goto(Io(f, "exists"), "L91"), w)

\* lines 83-88: read the file of the module, look in its default section
StepL83(f, w) ==
    LET g == Io(f, "read")
        file == module_config(w.localFile, f.name)
        local_config == Read(file)
    IN  IF ReadRaises(file)
        THEN At(Raise(g, "ParsingError"), w)
        ELSE IF has_option(local_config, default_section)
             THEN At(Return(g, get(local_config, default_section)), w)
             ELSE At(Goto(g, "L91"), w)

\* lines 91-94: the environment variable BIO2BEL_CONNECTION
StepL91(f, w) ==
    LET global_environ_connection == environ_get(w.environ, GlobalEnvKey)
        g == Io(f, "environ.get")
    IN  IF global_environ_connection # None
        THEN At(Return(g, global_environ_connection), w)
        ELSE At(Goto(g, "L97"), w)

\* StepL97 with the existence test dropped: the file is written every time
StepL97_Always(f, w) == At(Goto(Io(f, "exists"), "L100"), w)

\* line 97: if not os.path.exists(DEFAULT_CONFIG_PATH)
StepL97(f, w) ==
    IF ~exists(w.globalFile)
    THEN At(Goto(Io(f, "exists"), "L100"), w)
    ELSE At(Goto(Io(f, "exists"), "L106"), w)

\* line 100: open(DEFAULT_CONFIG_PATH, 'w') creates the file, or truncates the
\* file that is there by now
StepL100(f, w) ==
    LET ev == IF exists(w.globalFile) THEN "open_w:truncate" ELSE "open_w:create"
    IN  At(Goto(Io(f, ev), "L102"), [w EXCEPT !.globalFile = EmptyFile])

\* lines 101-102: the default section with the default connection is written
\* from offset 0 when the with block closes the file
StepL102(f, w) ==
    At(Goto(Io(f, "write"), "L106"), [w EXCEPT !.globalFile = SeededFile])

\* StepL106 seeding the file when it lacks the default connection key
StepL106_Seed(f, w) ==
    LET g == Io(f, "read")
        config == Read(w.globalFile)
    IN  IF ReadRaises(w.globalFile)
        THEN At(Raise(g, "ParsingError"), w)
        ELSE IF ~has_option(config, default_section)
             THEN At(Return(Io(g, "open_w:truncate"), DEFAULT_CACHE_CONNECTION),
                     [w EXCEPT !.globalFile = SeededFile])
             ELSE At(Return(g, get(config, default_section)), w)

\* lines 105-115: read the global file, look in its default section
StepL106(f, w) ==
    LET g == Io(f, "read")
        config == Read(w.globalFile)
    IN  IF ReadRaises(w.globalFile)
        THEN At(Raise(g, "ParsingError"), w)
        ELSE IF ~has_option(config, default_section)
             THEN At(Return(g, DEFAULT_CACHE_CONNECTION), w)
             ELSE At(Return(g, get(config, default_section)), w)

Step(f, w) ==
    CASE f.pc = "L55" -> StepL55(f, w)
      [] f.pc = "L58" -> StepL58(f, w)
      [] f.pc = "L63" -> StepL63(f, w)
      [] f.pc = "L72" -> StepL72(f, w)
      [] f.pc = "L73" -> StepL73(f, w)
      [] f.pc = "L82" -> StepL82(f, w)
      [] f.pc = "L83" -> StepL83(f, w)
      [] f.pc = "L91" -> StepL91(f, w)
      [] f.pc = "L97" -> StepL97(f, w)
      [] f.pc = "L100" -> StepL100(f, w)
      [] f.pc = "L102" -> StepL102(f, w)
      [] f.pc = "L106" -> StepL106(f, w)
      [] OTHER -> At(f, w)

RECURSIVE Run(_)
Run(s) == IF s.f.pc = "done" THEN s ELSE Run(Step(s.f, s.w))

\* A whole call of get_connection with nothing else running.
get_connection(module_name, connection, w) ==
    Run(At(NewFrame(module_name, connection), w))

\* AbstractManagerConnectionMixin.__init__ of a class whose module_name is
\* the given value.
ManagerInit(module_name, connection, w) ==
    IF ~Truthy(module_name) \/ ~IsStr(module_name)
    THEN At(Raise(NewFrame(module_name, connection), "Bio2BELMissingNameError"), w)
    ELSE IF module_name.val # Lower(module_name.val)
         THEN At(Raise(NewFrame(module_name, connection), "Bio2BELModuleCaseError"), w)
         ELSE LET s == get_connection(module_name, connection, w)
              IN  IF s.f.exc # ""
                  THEN s
                  ELSE At(Io(s.f, "create_engine"), s.w)

Opens(io) ==
    Cardinality({i \in DOMAIN io : io[i] \in {"open_w:create", "open_w:truncate"}})

\* What a finished call leaves behind; before is the global file it started with.
Outcome(fn, f, before) ==
    [fn |-> fn, module_name |-> f.module_name, connection |-> f.connection,
     result |-> f.result, exc |-> f.exc, io |-> f.io, before |-> before]

NoCall == Outcome("", NewFrame(PyNone, None), Absent)

-----------------------------------------------------------------------------
(* The ledger and the lifecycle operations *)

\* Action.store_populate / Action.store_drop: one row, the name lowercased.
store_populate(ldg, resource) ==
    Append(ldg, [id |-> Len(ldg) + 1, module_name |-> Lower(resource),
                 action |-> "populate"])
store_drop(ldg, resource) ==
    Append(ldg, [id |-> Len(ldg) + 1, module_name |-> Lower(resource),
                 action |-> "drop"])

Call(op, module_name, events, exc) ==
    [op |-> op, module_name |-> module_name, events |-> events, exc |-> exc]
After(ldg, tbl, call) == [ledger |-> ldg, tables |-> tbl, call |-> call]

\* bio2bel_populater(resource)(f)(): store_ok says whether the ledger insert
\* succeeds, f_ok whether the populate function does (a failing f is taken to
\* fail before it changes anything).
wrapped(resource, store_ok, f_ok, ldg, tbl) ==
    IF ~store_ok
    THEN After(ldg, tbl, Call("populate", resource, <<>>, "LedgerWriteError"))
    ELSE LET stored == store_populate(ldg, resource)
         IN  IF ~f_ok
             THEN After(stored, tbl,
                        Call("populate", resource, <<"ledger_insert">>, "PopulateError"))
             ELSE After(stored, [tbl EXCEPT ![Lower(resource)] = "populated"],
                        Call("populate", resource, <<"ledger_insert", "mutation">>, ""))

\* drop_all without the call of Action.store_drop
drop_all_NoRecord(module_name, drop_ok, store_ok, ldg, tbl) ==
    IF ~drop_ok
    THEN After(ldg, tbl, Call("drop", module_name, <<>>, "OperationalError"))
    ELSE After(ldg, [tbl EXCEPT ![module_name] = "dropped"],
               Call("drop", module_name, <<"mutation">>, ""))

\* AbstractManager.drop_all of a manager whose module_name is the given
\* string: drop_ok says whether metadata.drop_all succeeds.
drop_all(module_name, drop_ok, store_ok, ldg, tbl) ==
    IF ~drop_ok
    THEN After(ldg, tbl, Call("drop", module_name, <<>>, "OperationalError"))
    ELSE LET dropped == [tbl EXCEPT ![module_name] = "dropped"]
         IN  IF ~store_ok
             THEN After(ldg, dropped,
                        Call("drop", module_name, <<"mutation">>, "LedgerWriteError"))
             ELSE After(store_drop(ldg, module_name), dropped,
                        Call("drop", module_name, <<"mutation", "ledger_insert">>, ""))

\* The names a constructed manager can have (abstractmanager.py lines 51-55).
ManagerNames == {s \in StrNames : Truthy(Str(s)) /\ s = Lower(s)}
Resources == StrNames \ {<<>>}

-----------------------------------------------------------------------------
(* Initial states *)

IsFresh(env, gfile, lfiles) ==
    /\ DOMAIN env = {}
    /\ gfile = Absent
    /\ \A m \in DOMAIN lfiles : lfiles[m] = Absent

Environs == {[k \in S |-> EnvValue(k)] : S \in SUBSET EnvKeys}
NoLocalFiles == [m \in ConfigModules |-> Absent]

InitRest ==
    /\ ret = NoCall
    /\ writes = 0
    /\ ledger = <<>>
    /\ tables = [m \in ConfigModules |-> "created"]
    /\ hist = <<>>

Init ==
    /\ environ \in Environs
    /\ globalFile \in GlobalFiles
    /\ localFile \in {lf \in [ConfigModules -> UNION {LocalFiles(m) : m \in ConfigModules}] :
                        \A m \in ConfigModules : lf[m] \in LocalFiles(m)}
    /\ fresh = IsFresh(environ, globalFile, localFile)
    /\ frames = <<>>
    /\ InitRest

InitFresh ==
    /\ environ = [k \in {} |-> None]
    /\ globalFile = Absent
    /\ localFile = NoLocalFiles
    /\ fresh = TRUE

InitRace ==
    /\ InitFresh
    /\ frames \in [1..NumCallers -> {NewFrame(n, None) : n \in ValidNames}]
    /\ InitRest

InitLedger ==
    /\ InitFresh
    /\ frames = <<>>
    /\ InitRest

-----------------------------------------------------------------------------
(* Actions *)

Finish(fn, s) ==
    /\ ret' = Outcome(fn, s.f, globalFile)
    /\ globalFile' = s.w.globalFile
    /\ environ' = s.w.environ
    /\ localFile' = s.w.localFile
    /\ writes' = writes + Opens(s.f.io)
    /\ UNCHANGED <<frames, fresh, ledger, tables, hist>>

\* get_connection(module_name, connection=connection), run to its end
GetConnectionCall ==
    \E module_name \in NameInputs, connection \in ConnectionArgs :
        \E s \in {get_connection(module_name, connection,
                                 World(environ, globalFile, localFile))} :
            Finish("get_connection", s)

\* Manager(connection=connection) for a class with the given module_name
ManagerInitCall ==
    \E module_name \in NameInputs, connection \in ConnectionArgs :
        \E s \in {ManagerInit(module_name, connection,
                              World(environ, globalFile, localFile))} :
            Finish("__init__", s)

\* One step of one of the concurrent callers of get_connection
CallerStep(p) ==
    /\ frames[p].pc # "done"
    /\ LET s == Step(frames[p], World(environ, globalFile, localFile))
       IN  /\ frames' = [frames EXCEPT ![p] = s.f]
           /\ globalFile' = s.w.globalFile
           /\ environ' = s.w.environ
           /\ localFile' = s.w.localFile
           /\ writes' = writes + (Opens(s.f.io) - Opens(frames[p].io))
    /\ UNCHANGED <<ret, fresh, ledger, tables, hist>>

Record(a) ==
    /\ ledger' = a.ledger
    /\ tables' = a.tables
    /\ hist' = Append(hist, a.call)
    /\ UNCHANGED <<environ, globalFile, localFile, ret, frames, writes, fresh>>

\* a call of a function decorated with bio2bel_populater(resource)
Populate ==
    /\ Len(hist) < MaxOps
    /\ \E resource \in Resources, store_ok \in BOOLEAN, f_ok \in BOOLEAN :
           Record(wrapped(resource, store_ok, f_ok, ledger, tables))

\* manager.drop_all()
DropAll ==
    /\ Len(hist) < MaxOps
    /\ \E module_name \in ManagerNames, drop_ok \in BOOLEAN, store_ok \in BOOLEAN :
           Record(drop_all(module_name, drop_ok, store_ok, ledger, tables))

Next == GetConnectionCall \/ ManagerInitCall
Spec == Init /\ [][Next]_vars

NextRace == \E p \in 1..NumCallers : CallerStep(p)
SpecRace == InitRace /\ [][NextRace]_vars

NextLedger == Populate \/ DropAll
SpecLedger == InitLedger /\ [][NextLedger]_vars

-----------------------------------------------------------------------------
(* Properties of connection resolution *)

Range(q) == {q[i] : i \in DOMAIN q}

IsGet == ret.fn = "get_connection" /\ IsStr(ret.module_name)
RetName == Lower(ret.module_name.val)
RetModuleEnv == environ_get(environ, ModuleEnvKey(RetName))
RetLocal == module_config(localFile, RetName)
RetSection ==
    IF RetName \in DOMAIN ret.before.sections
    THEN ret.before.sections[RetName]
    ELSE None

\* C1: an explicit connection is returned as it is, whatever the environment
\* variables, the global file and the file of the module hold; the same goes
\* for a manager that is given one.
C1_ExplicitWins ==
    /\ (IsGet /\ ret.connection # None) =>
           (ret.exc = "" /\ ret.result = ret.connection)
    /\ (ret.fn = "__init__" /\ IsStr(ret.module_name)
            /\ ret.module_name.val \in ManagerNames /\ ret.connection # None) =>
           (ret.exc = "" /\ ret.result = ret.connection)

C1_Witness ==
    /\ IsGet
    /\ ret.connection \in Explicit
    /\ ret.result = ret.connection
    /\ RetModuleEnv # None
    /\ GlobalEnvKey \in DOMAIN environ
    /\ globalFile = Malformed
    /\ RetLocal.defaults # None

\* The first source that is present, in the order: module environment
\* variable, connection key of the module's section of the global file,
\* file of the module, BIO2BEL_CONNECTION, default section of the global
\* file, hardcoded default.
FirstPresent(sources) ==
    LET present == {i \in DOMAIN sources : sources[i] # None}
    IN  sources[CHOOSE i \in present : \A j \in present : i <= j]

RetSources ==
    <<RetModuleEnv, RetSection, RetLocal.defaults,
      environ_get(environ, GlobalEnvKey), ret.before.defaults,
      DEFAULT_CACHE_CONNECTION>>

WellFormedCall ==
    /\ IsGet
    /\ ret.module_name.val # <<>>
    /\ ret.connection = None
    /\ ret.before # Malformed
    /\ RetLocal # Malformed

\* C2: without an explicit connection, and with well-formed files, the call
\* returns the value of the first source present in the strict order; no
\* lower-ranked source overrides a higher-ranked one.
C2_StrictPrecedence ==
    WellFormedCall => (ret.exc = "" /\ ret.result = FirstPresent(RetSources))

FreshCall == IsGet /\ ret.module_name.val # <<>> /\ ret.connection = None

C3_State ==
    /\ writes <= 1
    /\ exists(globalFile) => (globalFile = SeededFile /\ writes = 1)
    /\ FreshCall =>
           /\ ret.exc = ""
           /\ ret.result = DEFAULT_CACHE_CONNECTION
           /\ globalFile = SeededFile
           /\ ("open_w:create" \in Range(ret.io)) <=> (ret.before = Absent)
           /\ "open_w:truncate" \notin Range(ret.io)

\* C3: from a fresh environment, sequential calls of get_connection (with a
\* module name, without an explicit connection) create the global file once,
\* on the first such call and seeded with the hardcoded default, never write
\* it again, and each returns the hardcoded default.
C3_CreatedOnce ==
    /\ [](fresh => C3_State)
    /\ [][(fresh /\ exists(globalFile)) =>
              (globalFile' = globalFile /\ writes' = writes)]_vars

C3_Witness ==
    /\ fresh
    /\ FreshCall
    /\ ret.before = SeededFile
    /\ ret.result = DEFAULT_CACHE_CONNECTION
    /\ writes = 1

\* C5 as stated: with a malformed global file every call of get_connection
\* fails with the parse error.
C5_AlwaysParseError ==
    (IsGet /\ ret.before = Malformed) => ret.exc = "ParsingError"

\* C5: with a malformed global file, a call without an explicit connection
\* and with the module's environment variable unset fails with the parse
\* error; no call returns the hardcoded default, and a call that returns
\* returns the explicit connection or the module's environment variable.
C5_ParseErrorWhenRead ==
    (IsGet /\ ret.before = Malformed) =>
        /\ ret.result # DEFAULT_CACHE_CONNECTION
        /\ globalFile = Malformed
        /\ (ret.connection = None /\ RetModuleEnv = None) =>
               (ret.exc = "ParsingError" /\ ret.result = None)
        /\ ret.exc = "" =>
               \/ (ret.connection # None /\ ret.result = ret.connection)
               \/ (ret.connection = None /\ ret.result = RetModuleEnv)

C5_Witness ==
    /\ IsGet
    /\ ret.before = Malformed
    /\ ret.connection = None
    /\ ret.exc = "ParsingError"
    /\ RetLocal.defaults # None
    /\ GlobalEnvKey \in DOMAIN environ

NoHigherSource ==
    /\ IsGet
    /\ ret.connection = None
    /\ ret.before.kind = "ini"
    /\ ret.before.defaults = None
    /\ RetModuleEnv = None
    /\ RetSection = None
    /\ RetLocal # Malformed
    /\ RetLocal.defaults = None
    /\ GlobalEnvKey \notin DOMAIN environ

\* C9: a global file that parses but has no default connection key, with no
\* higher source matching, gives the hardcoded default and is left as it is;
\* the global file is written only when it does not exist (and is then
\* seeded), and the file of a module is never written.
C9_ReadOnlyFallback ==
    /\ [](NoHigherSource =>
            /\ ret.exc = ""
            /\ ret.result = DEFAULT_CACHE_CONNECTION
            /\ globalFile = ret.before
            /\ Opens(ret.io) = 0)
    /\ [][/\ exists(globalFile) => globalFile' = globalFile
          /\ globalFile' # globalFile => globalFile' = SeededFile
          /\ localFile' = localFile]_vars

C9_Witness ==
    /\ NoHigherSource
    /\ ret.module_name.val # <<>>
    /\ RetName \in DOMAIN ret.before.sections
    /\ RetLocal = EmptyFile
    /\ ret.result = DEFAULT_CACHE_CONNECTION
    /\ globalFile = ret.before

InvalidName(x) == ~IsStr(x) \/ x.val = <<>>

\* C10: an empty or non-string module name is rejected before any I/O, by
\* get_connection and by the constructor of a manager; a manager whose
\* module_name is not lowercase is rejected before resolution.
C10_FailFast ==
    /\ (ret.fn \in {"get_connection", "__init__"} /\ InvalidName(ret.module_name)) =>
           (ret.exc # "" /\ ret.io = <<>>)
    /\ (ret.fn = "__init__" /\ IsStr(ret.module_name)
            /\ ret.module_name.val # Lower(ret.module_name.val)) =>
           (ret.exc = "Bio2BELModuleCaseError" /\ ret.io = <<>>)

-----------------------------------------------------------------------------
(* Properties of concurrent first-time resolution *)

AllDone == \A p \in DOMAIN frames : frames[p].pc = "done"

\* C4: with concurrent first-time callers the global file is created by an
\* atomic create-if-absent step: it is opened for writing once, no caller
\* truncates a file that is already there, and when all callers are done it
\* holds the one seeded default entry and every caller has returned the
\* hardcoded default.
C4_AtomicCreate ==
    /\ writes <= 1
    /\ \A p \in DOMAIN frames : "open_w:truncate" \notin Range(frames[p].io)
    /\ AllDone =>
           /\ globalFile = SeededFile
           /\ \A p \in DOMAIN frames :
                  frames[p].exc = "" /\ frames[p].result = DEFAULT_CACHE_CONNECTION

-----------------------------------------------------------------------------
(* Properties of the ledger *)

Recorded(call) ==
    \/ call.op = "populate" /\ call.exc # "LedgerWriteError"
    \/ call.op = "drop" /\ call.exc = ""

RECURSIVE ExpectedLedger(_)
ExpectedLedger(calls) ==
    IF calls = <<>>
    THEN <<>>
    ELSE LET n == Len(calls)
             before == ExpectedLedger(SubSeq(calls, 1, n - 1))
         IN  IF Recorded(calls[n])
             THEN Append(before, [id |-> Len(before) + 1,
                                  module_name |-> Lower(calls[n].module_name),
                                  action |-> calls[n].op])
             ELSE before

\* C6: every populate whose ledger insert went through and every drop that
\* completed has exactly one row, in call order, with the module name
\* lowercased whatever the casing of the call; rows are only appended, one at
\* a time, and never changed or removed (so a populate followed by a drop
\* leaves POPULATE then DROP, and a repeated populate one more row each time).
C6_LedgerAppendOnly ==
    /\ [](ledger = ExpectedLedger(hist))
    /\ [][/\ Len(ledger') <= Len(ledger) + 1
          /\ \A i \in DOMAIN ledger : i \in DOMAIN ledger' /\ ledger'[i] = ledger[i]]_vars

C6_Witness ==
    /\ Len(hist) = 3
    /\ hist[1] = Call("populate", <<"A">>, <<"ledger_insert", "mutation">>, "")
    /\ hist[2] = Call("drop", <<"a">>, <<"mutation", "ledger_insert">>, "")
    /\ hist[3] = Call("populate", <<"A">>, <<"ledger_insert", "mutation">>, "")
    /\ ledger = <<[id |-> 1, module_name |-> <<"a">>, action |-> "populate"],
                  [id |-> 2, module_name |-> <<"a">>, action |-> "drop"],
                  [id |-> 3, module_name |-> <<"a">>, action |-> "populate"]>>

\* C7: when the ledger insert of a populate or of a drop fails, the error
\* reaches the caller and the mutation of that operation has not happened.
C7_LedgerFailureAborts ==
    \A i \in DOMAIN hist :
        hist[i].exc = "LedgerWriteError" => "mutation" \notin Range(hist[i].events)

Complete(call) == Len(call.events) = 2

\* C8: the ledger insert is on the same side of the mutation in a populate
\* as in a drop.
C8_SameSide ==
    \A i, j \in DOMAIN hist :
        (hist[i].op = "populate" /\ hist[j].op = "drop"
            /\ Complete(hist[i]) /\ Complete(hist[j])) =>
        hist[i].events = hist[j].events

====
